---- MODULE Spec2Model ----
(***************************************************************************)
(* A model of the stock performance analysis package: Stock, PortFolio,    *)
(* PortfolioFactory, Benchmark and the Performance report                  *)
(* (src/utils/*.py).                                                       *)
(*                                                                         *)
(* Numbers.  The code computes in IEEE doubles (numpy.float64).  The model *)
(* computes in exact rationals n/d extended with the three non-finite      *)
(* doubles: 1/0 is +inf, -1/0 is -inf and 0/0 is NaN.  numpy does not      *)
(* raise on a zero divisor, it yields inf or NaN (and a warning), and the  *)
(* operators below do the same.  Rounding and the sign of zero are not     *)
(* modelled; prices and rates are drawn from values a double holds         *)
(* exactly.  A standard deviation is kept as the variance it is the root   *)
(* of.                                                                     *)
(***************************************************************************)
EXTENDS Integers, Sequences, FiniteSets, TLC

VARIABLES
    stock,       \* the Stock under test, or Null before construction
    sret,        \* outcome of the last Stock operation
    ents,        \* the evaluated entity before and after its one change
    ver,         \* which of ents the report's entity currently is
    bench,       \* the Benchmark: its constituent Stocks, in order
    bret,        \* outcome of the last operation on the Benchmark itself
    performace,  \* Performance.performace: the dict, in insertion order
    made,        \* history: for each cached metric, the call that computed it
    pret,        \* outcome of the last Performance operation
    ncalls,      \* how many calls the report has served
    port,        \* the PortFolio under test, or Null before construction
    qret,        \* outcome of the last PortFolio operation
    files,       \* the download folder: file name -> the table saved in it
    request,     \* the symbols and weights the caller asks a portfolio for
    fret         \* outcome of the last factory operation

svars == <<stock, sret>>
pvars == <<ents, ver, bench, bret, performace, made, pret, ncalls>>
qvars == <<port, qret>>
fvars == <<files, request, fret>>
vars == <<stock, sret, ents, ver, bench, bret, performace, made, pret, ncalls, port, qret,
          files, request, fret>>

Null == [none |-> TRUE]

\* ------------------------------------------------------------------ numbers
Abs(x) == IF x < 0 THEN -x ELSE x

Sgn(x) == IF x < 0 THEN -1 ELSE IF x > 0 THEN 1 ELSE 0

RECURSIVE GCD(_, _)
GCD(a, b) == IF b = 0 THEN a ELSE GCD(b, a % b)

\* the double n/d: reduced, d > 0; d = 0 is +inf, -inf or NaN by the sign of n
Norm(n, d) ==
    IF d = 0 THEN [n |-> Sgn(n), d |-> 0]
    ELSE LET s == IF d < 0 THEN -1 ELSE 1
             g == GCD(Abs(n), Abs(d))
         IN  [n |-> (s * n) \div g, d |-> (s * d) \div g]

R(n, d) == Norm(n, d)
Zero == R(0, 1)
One == R(1, 1)
NaN == [n |-> 0, d |-> 0]
Inf == [n |-> 1, d |-> 0]
NegInf == [n |-> -1, d |-> 0]

IsNaN(a) == a = NaN
IsFinite(a) == a.d # 0

Add(a, b) ==
    IF a.d = 0 /\ b.d = 0
    THEN (IF a = b THEN a ELSE NaN)
    ELSE Norm(a.n * b.d + b.n * a.d, a.d * b.d)

Neg(a) == [n |-> -a.n, d |-> a.d]
Sub(a, b) == Add(a, Neg(b))
Mul(a, b) == Norm(a.n * b.n, a.d * b.d)

\* 1/b as a double: 1/0 = inf, 1/inf = 0, 1/NaN = NaN
Recip(b) == IF b.n < 0 THEN [n |-> -b.d, d |-> -b.n] ELSE [n |-> b.d, d |-> b.n]

\* a/b as numpy divides: a zero divisor gives inf, -inf or NaN, never an error
Div(a, b) == Mul(a, Recip(b))

RECURSIVE SumSeq(_)
SumSeq(s) == IF s = <<>> THEN Zero ELSE Add(Head(s), SumSeq(Tail(s)))

\* ------------------------------------------------------------------ bounds
MaxRows == 2

\* calls served by one report
MaxCalls == 3

\* constituents of one portfolio
MaxStocks == 2

Dates == {101, 102, 201}
Opens == {0, 1, 2}
Closes == {0, 2, 3}

\* calendar year of a date
Year(d) == d \div 100

Rows == [Date : Dates, Open : Opens, Close : Closes]

RECURSIVE SeqsUpTo(_, _)
SeqsUpTo(S, n) ==
    IF n = 0 THEN {<<>>}
    ELSE LET P == SeqsUpTo(S, n - 1)
         IN  P \cup {Append(p, x) : p \in {q \in P : Len(q) = n - 1}, x \in S}

RequiredCols == {"Date", "Open", "Close"}

\* what a caller may hand to Stock(name, df)
StockInputs ==
    {[isDF |-> TRUE, cols |-> c, rows |-> t] :
        c \in {RequiredCols, RequiredCols \cup {"Volume"}},
        t \in SeqsUpTo(Rows, MaxRows)}
    \cup {[isDF |-> TRUE, cols |-> RequiredCols \ {x}, rows |-> <<>>] : x \in RequiredCols}
    \cup {[isDF |-> FALSE, cols |-> {}, rows |-> <<>>]}

\* ------------------------------------------------------------------ Stock
\* df.sort_values(by="Date"): rows in date order, equal dates keep their order
RECURSIVE InsertByDate(_, _)
InsertByDate(sorted, row) ==
    IF sorted = <<>> THEN <<row>>
    ELSE IF sorted[Len(sorted)].Date <= row.Date THEN Append(sorted, row)
    ELSE Append(InsertByDate(SubSeq(sorted, 1, Len(sorted) - 1), row), sorted[Len(sorted)])

RECURSIVE SortByDate(_)
SortByDate(rows) ==
    IF rows = <<>> THEN <<>>
    ELSE InsertByDate(SortByDate(SubSeq(rows, 1, Len(rows) - 1)), rows[Len(rows)])

\* the outcome of a call: a returned value, or the exception that left it
Ok(op, v) == [op |-> op, kind |-> "ok", val |-> v, err |-> ""]
Raise(op, e) == [op |-> op, kind |-> "raise", val |-> Null, err |-> e]

\* Stock.__init__: the outcome, a Stock or the exception raised
StockInit(name, inp) ==
    IF ~inp.isDF THEN Raise("Stock", "Exception: Pass DataFrame Object")
    ELSE IF ~(RequiredCols \subseteq inp.cols)
    THEN Raise("Stock", "Exception: DataFrame should contain Date, Open, Close Columns")
    ELSE Ok("Stock", [name |-> name, df |-> SortByDate(inp.rows)])

\* ((Close-Open)/Open)*100 of one row
RowReturn(row) == Mul(Div(R(row.Close - row.Open, 1), R(row.Open, 1)), R(100, 1))

\* a variant of StockDailyReturn: the change of Close from the row before, which has
\* no entry for the first row
StockDailyReturnOnPrevious(s) ==
    [i \in 1..Len(s.df) - 1 |->
        [date |-> s.df[i + 1].Date,
         val |-> Mul(Div(R(s.df[i + 1].Close - s.df[i].Close, 1), R(s.df[i].Close, 1)),
                     R(100, 1))]]

\* Stock.get_daily_return: one (date, value) entry per stored row, in stored order
StockDailyReturn(s) ==
    [i \in 1..Len(s.df) |-> [date |-> s.df[i].Date, val |-> RowReturn(s.df[i])]]

\* len(year.unique())
TotalYear(s) == Cardinality({Year(s.df[i].Date) : i \in 1..Len(s.df)})

\* pow(x, 1/n) for the exponents the model reaches: n = 1 is x itself; for n > 1 the
\* root is kept only when it is a rational with small terms, otherwise it is the
\* symbolic root, which is not a double the model can compute with.
RootCands == {R(a, b) : a \in 0..4, b \in 1..4}

MulN(x, n) == IF n = 1 THEN x ELSE IF n = 2 THEN Mul(x, x) ELSE Mul(x, Mul(x, x))

Pow(x, n) ==
    IF n = 1 \/ ~IsFinite(x) \/ x = Zero \/ x = One THEN x
    ELSE IF \E c \in RootCands : MulN(c, n) = x
    THEN CHOOSE c \in RootCands : MulN(c, n) = x
    ELSE [n |-> x.n, d |-> x.d, root |-> n]

\* Stock.get_cagr: IndexError on an empty table, else pow(final/initial, 1/years) - 1
StockCagr(s) ==
    IF s.df = <<>> THEN Raise("get_cagr", "IndexError")
    ELSE LET initial_value == R(s.df[1].Open, 1)
             final_value == R(s.df[Len(s.df)].Close, 1)
             p == Pow(Div(final_value, initial_value), TotalYear(s))
         IN  Ok("get_cagr", IF "root" \in DOMAIN p THEN p ELSE Sub(p, One))

\* --------------------------------------------------------------- statistics
\* A pandas Series whose dates are unique, as a function from its dates to its values.
SeriesOf(dr) ==
    [d \in {dr[i].date : i \in 1..Len(dr)} |-> dr[CHOOSE i \in 1..Len(dr) : dr[i].date = d].val]

RECURSIVE SetToSeq(_)
SetToSeq(S) ==
    IF S = {} THEN <<>>
    ELSE LET m == CHOOSE x \in S : \A y \in S : x <= y
         IN  <<m>> \o SetToSeq(S \ {m})

\* The sample covariance (ddof = 1) of the pairs ps, as pandas computes it: pairs
\* with a NaN are dropped, fewer than two pairs give NaN, an infinite value gives NaN.
CovPairs(ps) ==
    LET I == {i \in 1..Len(ps) : ~IsNaN(ps[i][1]) /\ ~IsNaN(ps[i][2])}
        ix == SetToSeq(I)
        n == Len(ix)
        sx == SumSeq([k \in 1..n |-> ps[ix[k]][1]])
        sy == SumSeq([k \in 1..n |-> ps[ix[k]][2]])
        sxy == SumSeq([k \in 1..n |-> Mul(ps[ix[k]][1], ps[ix[k]][2])])
    IN  IF n < 2 THEN NaN
        ELSE IF \E i \in I : ~IsFinite(ps[i][1]) \/ ~IsFinite(ps[i][2]) THEN NaN
        ELSE Div(Sub(Mul(R(n, 1), sxy), Mul(sx, sy)), R(n * (n - 1), 1))

\* Series.var() / DataFrame.var() of one column: over every date the column has
VarSeries(x) ==
    LET ds == SetToSeq(DOMAIN x)
    IN  CovPairs([k \in 1..Len(ds) |-> <<x[ds[k]], x[ds[k]]>>])

\* x.cov(y): the two series are aligned on the dates both have
CovSeries(x, y) ==
    LET ds == SetToSeq(DOMAIN x \cap DOMAIN y)
    IN  CovPairs([k \in 1..Len(ds) |-> <<x[ds[k]], y[ds[k]]>>])

\* x.sub(y): defined on the dates both have (NaN elsewhere, which std() skips)
SubSeries(x, y) == [d \in DOMAIN x \cap DOMAIN y |-> Sub(x[d], y[d])]

\* Series.std(): the square root of the sample variance, kept as that variance
StdOf(x) == [sq |-> VarSeries(x)]

\* Stock.get_std
StockStd(s) ==
    LET dr == StockDailyReturn(s)
    IN  [sq |-> CovPairs([i \in 1..Len(dr) |-> <<dr[i].val, dr[i].val>>])]

\* ---------------------------------------------------- operations on a Stock
Idle == [op |-> "none", kind |-> "ok", val |-> Null, err |-> ""]

StockNames == {"S"}

NewStock ==
    /\ stock = Null
    /\ \E inp \in StockInputs, name \in StockNames :
          LET r == StockInit(name, inp)
          IN  /\ sret' = [r EXCEPT !.val = inp]
              /\ stock' = IF r.kind = "ok" THEN r.val ELSE Null
    /\ UNCHANGED <<pvars, qvars, fvars>>

StockGetDailyReturn ==
    /\ stock # Null
    /\ sret' = Ok("get_daily_return", StockDailyReturn(stock))
    /\ UNCHANGED stock
    /\ UNCHANGED <<pvars, qvars, fvars>>

StockGetCagr ==
    /\ stock # Null
    /\ sret' = StockCagr(stock)
    /\ UNCHANGED stock
    /\ UNCHANGED <<pvars, qvars, fvars>>

StockGetStd ==
    /\ stock # Null
    /\ sret' = Ok("get_std", StockStd(stock))
    /\ UNCHANGED stock
    /\ UNCHANGED <<pvars, qvars, fvars>>

StockGetDataframe ==
    /\ stock # Null
    /\ sret' = Ok("get_dataframe", stock.df)
    /\ UNCHANGED stock
    /\ UNCHANGED <<pvars, qvars, fvars>>

\* -------------------------------------------------------------- Benchmark
\* Benchmark.get_daily_return: one named column per constituent, in order; a column
\* holds its constituent's dates (the concat's other dates are NaN in it)
BenchDailyReturn(b) ==
    [columns |-> [j \in 1..Len(b) |-> b[j].name],
     data |-> [j \in 1..Len(b) |-> SeriesOf(StockDailyReturn(b[j]))]]

\* Benchmark.get_cagr: the vector of the constituents' CAGRs, or the first exception
BenchCagr(b) ==
    IF \E j \in 1..Len(b) : StockCagr(b[j]).kind = "raise"
    THEN Raise("get_cagr", "IndexError")
    ELSE Ok("get_cagr", [j \in 1..Len(b) |-> StockCagr(b[j]).val])

\* for stock in self.stocks: if(stock.name == name): return stock, from position i on
RECURSIVE FirstNamed(_, _, _)
FirstNamed(stocks, name, i) ==
    IF i > Len(stocks) THEN Null
    ELSE IF stocks[i].name = name THEN stocks[i]
    ELSE FirstNamed(stocks, name, i + 1)

\* a variant of BenchGetStock that keeps searching and returns the last match
BenchGetStockLast(b, name) ==
    LET J == {j \in 1..Len(b) : b[j].name = name}
    IN  IF J = {} THEN Null ELSE b[CHOOSE j \in J : \A k \in J : k <= j]

\* Benchmark.get_stock: the constituent found, or None
BenchGetStock(b, name) == FirstNamed(b, name, 1)

\* Benchmark.get_stocks_name
BenchStocksName(b) == [j \in 1..Len(b) |-> b[j].name]

\* names a caller looks up; no constituent is named "Q"
LookupNames == {"X", "Y", "Z", "W", "Q"}

BenchRet(op, name, out) == [op |-> op, name |-> name, kind |-> out.kind, val |-> out.val,
                            err |-> out.err]

BenchmarkGetStock ==
    /\ \E name \in LookupNames :
          bret' = BenchRet("get_stock", name, Ok("get_stock", BenchGetStock(bench, name)))
    /\ UNCHANGED <<ents, ver, bench, performace, made, pret, ncalls>>
    /\ UNCHANGED <<svars, qvars, fvars>>

BenchmarkGetStocks ==
    /\ bret' = BenchRet("get_stocks", "", Ok("get_stocks", bench))
    /\ UNCHANGED <<ents, ver, bench, performace, made, pret, ncalls>>
    /\ UNCHANGED <<svars, qvars, fvars>>

BenchmarkGetStocksName ==
    /\ bret' = BenchRet("get_stocks_name", "", Ok("get_stocks_name", BenchStocksName(bench)))
    /\ UNCHANGED <<ents, ver, bench, performace, made, pret, ncalls>>
    /\ UNCHANGED <<svars, qvars, fvars>>

BenchmarkGetTotalStocks ==
    /\ bret' = BenchRet("get_total_stocks", "", Ok("get_total_stocks", Len(bench)))
    /\ UNCHANGED <<ents, ver, bench, performace, made, pret, ncalls>>
    /\ UNCHANGED <<svars, qvars, fvars>>

BenchmarkGetCagr ==
    /\ bret' = BenchRet("get_cagr", "", BenchCagr(bench))
    /\ UNCHANGED <<ents, ver, bench, performace, made, pret, ncalls>>
    /\ UNCHANGED <<svars, qvars, fvars>>

\* ------------------------------------------------------------ Performance
Metrics == <<"beta", "alpha", "return", "tracking_error", "treynor_ratio", "sharpe_ratio">>

MetricNames == {Metrics[i] : i \in 1..Len(Metrics)}

\* the dict self.performace: a sequence of (key, val), in insertion order
Keys(c) == [i \in 1..Len(c) |-> c[i].key]
Has(c, k) == \E i \in 1..Len(c) : c[i].key = k
Get(c, k) == c[CHOOSE i \in 1..Len(c) : c[i].key = k].val

\* self.performace[k] = v
Put(c, k, v) ==
    IF \E i \in 1..Len(c) : c[i].key = k
    THEN [i \in 1..Len(c) |-> IF c[i].key = k THEN [key |-> k, val |-> v] ELSE c[i]]
    ELSE Append(c, [key |-> k, val |-> v])

\* the evaluated entity as it is now
Ent == ents[ver]

\* a variant of BetaValue that takes every variance from the first benchmark column
BetaValueFirstVariance(e, b) ==
    LET br == BenchDailyReturn(b)
        sr == SeriesOf(StockDailyReturn(e))
    IN  [j \in 1..Len(b) |-> Div(CovSeries(br.data[j], sr), VarSeries(br.data[1]))]

\* coveriance/variance, per benchmark column
BetaValue(e, b) ==
    LET br == BenchDailyReturn(b)
        sr == SeriesOf(StockDailyReturn(e))
    IN  [j \in 1..Len(b) |-> Div(CovSeries(br.data[j], sr), VarSeries(br.data[j]))]

\* a variant of AlphaValue that leaves the risk-free rate out
AlphaValueNoRate(stock_return, benchmark_return, beta, r) ==
    [idx \in 1..Len(beta) |-> Sub(stock_return, Mul(beta[idx], benchmark_return[idx]))]

\* stock_return - risk_free_return - beta[idx]*benchmark_return[idx]
AlphaValue(stock_return, benchmark_return, beta, r) ==
    [idx \in 1..Len(beta) |->
        Sub(Sub(stock_return, r), Mul(beta[idx], benchmark_return[idx]))]

\* stock_return/benchmark_return
ReturnValue(stock_return, benchmark_return) ==
    [j \in 1..Len(benchmark_return) |-> Div(stock_return, benchmark_return[j])]

\* stock_return.sub(benchmark_return[col]).std(), per benchmark column
TrackingValue(e, b) ==
    LET br == BenchDailyReturn(b)
        sr == SeriesOf(StockDailyReturn(e))
    IN  [j \in 1..Len(b) |-> StdOf(SubSeries(sr, br.data[j]))]

\* (stock_return-risk_free_return)/beta
TreynorValue(stock_return, beta, r) ==
    [j \in 1..Len(beta) |-> Div(Sub(stock_return, r), beta[j])]

\* a variant of SharpeValue that divides by the first benchmark constituent's deviation
SharpeValueOfBenchmark(stock_cagr, stock_std, r) ==
    [num |-> Sub(stock_cagr, r), sq |-> StockStd(bench[1]).sq]

\* (stock_cagr-risk_free_return)/stock_std
SharpeValue(stock_cagr, stock_std, r) == [num |-> Sub(stock_cagr, r), sq |-> stock_std.sq]

\* A call in progress: the dict, the history, the calls made into the entity (E.*)
\* and the benchmark (B.*), the metrics computed, and the outcome so far.
Call(c, m) ==
    [c |-> c, m |-> m, calls |-> {}, computed |-> {}, kind |-> "ok", val |-> Null, err |-> ""]

Returned(p, v) == [p EXCEPT !.val = v]

Stored(p, k, v, r) ==
    [p EXCEPT !.c = Put(p.c, k, v),
              !.m = [x \in DOMAIN p.m \cup {k} |->
                        IF x = k THEN [r |-> r, ver |-> ver] ELSE p.m[x]],
              !.computed = @ \cup {k},
              !.val = v]

Called(p, names) == [p EXCEPT !.calls = @ \cup names]

Failed(p, e) == [p EXCEPT !.kind = "raise", !.val = Null, !.err = e]

\* a variant of get_beta without the lookup in the dict
get_beta_uncached(p) ==
    Stored(Called(p, {"B.get_daily_return", "E.get_daily_return"}),
           "beta", BetaValue(Ent, bench), Null)

\* Performance.get_beta
get_beta(p) ==
    IF Has(p.c, "beta") THEN Returned(p, Get(p.c, "beta"))
    ELSE Stored(Called(p, {"B.get_daily_return", "E.get_daily_return"}),
                "beta", BetaValue(Ent, bench), Null)

\* a variant of get_alpha that catches an exception of the entities and caches NaN
get_alpha_caught(p, r) ==
    IF Has(p.c, "alpha") THEN Returned(p, Get(p.c, "alpha"))
    ELSE LET bc == BenchCagr(bench)
             sc == StockCagr(Ent)
             p2 == Called(p, {"B.get_cagr", "E.get_cagr"})
             p3 == get_beta(p2)
         IN  IF bc.kind = "raise" \/ sc.kind = "raise"
             THEN Stored(p2, "alpha", [j \in 1..Len(bench) |-> NaN], r)
             ELSE Stored(p3, "alpha", AlphaValue(sc.val, bc.val, p3.val, r), r)

\* Performance.get_alpha
get_alpha(p, r) ==
    IF Has(p.c, "alpha") THEN Returned(p, Get(p.c, "alpha"))
    ELSE LET bc == BenchCagr(bench)
             sc == StockCagr(Ent)
             p1 == Called(p, {"B.get_cagr"})
             p2 == Called(p1, {"E.get_cagr"})
             p3 == get_beta(p2)
         IN  IF bc.kind = "raise" THEN Failed(p1, bc.err)
             ELSE IF sc.kind = "raise" THEN Failed(p2, sc.err)
             ELSE Stored(p3, "alpha", AlphaValue(sc.val, bc.val, p3.val, r), r)

\* Performance.get_return
get_return(p) ==
    IF Has(p.c, "return") THEN Returned(p, Get(p.c, "return"))
    ELSE LET bc == BenchCagr(bench)
             sc == StockCagr(Ent)
             p1 == Called(p, {"B.get_cagr"})
             p2 == Called(p1, {"E.get_cagr"})
         IN  IF bc.kind = "raise" THEN Failed(p1, bc.err)
             ELSE IF sc.kind = "raise" THEN Failed(p2, sc.err)
             ELSE Stored(p2, "return", ReturnValue(sc.val, bc.val), Null)

\* Performance.get_tracking_error
get_tracking_error(p) ==
    IF Has(p.c, "tracking_error") THEN Returned(p, Get(p.c, "tracking_error"))
    ELSE Stored(Called(p, {"B.get_daily_return", "E.get_daily_return"}),
                "tracking_error", TrackingValue(Ent, bench), Null)

\* a variant of get_treynor_ratio that computes beta for itself and does not store it
get_treynor_ratio_own_beta(p, r) ==
    IF Has(p.c, "treynor_ratio") THEN Returned(p, Get(p.c, "treynor_ratio"))
    ELSE LET sc == StockCagr(Ent)
             p1 == Called(p, {"E.get_cagr", "B.get_daily_return", "E.get_daily_return"})
         IN  IF sc.kind = "raise" THEN Failed(p1, sc.err)
             ELSE Stored(p1, "treynor_ratio",
                         TreynorValue(sc.val, BetaValue(Ent, bench), r), r)

\* Performance.get_treynor_ratio
get_treynor_ratio(p, r) ==
    IF Has(p.c, "treynor_ratio") THEN Returned(p, Get(p.c, "treynor_ratio"))
    ELSE LET sc == StockCagr(Ent)
             p1 == Called(p, {"E.get_cagr"})
             p2 == get_beta(p1)
         IN  IF sc.kind = "raise" THEN Failed(p1, sc.err)
             ELSE Stored(p2, "treynor_ratio", TreynorValue(sc.val, p2.val, r), r)

\* Performance.get_sharpe_ratio
get_sharpe_ratio(p, r) ==
    IF Has(p.c, "sharpe_ratio") THEN Returned(p, Get(p.c, "sharpe_ratio"))
    ELSE LET sc == StockCagr(Ent)
             p1 == Called(p, {"E.get_std", "E.get_daily_return"})
             p2 == Called(p1, {"E.get_cagr"})
         IN  IF sc.kind = "raise" THEN Failed(p2, sc.err)
             ELSE Stored(p2, "sharpe_ratio", SharpeValue(sc.val, StockStd(Ent), r), r)

\* pd.DataFrame(self.performace, index=...columns): one row per benchmark column,
\* one column per key of the dict, in the dict's order; a vector gives row i its
\* i-th element, a scalar (the Sharpe ratio) is repeated in every row
Cell(k, v, i) == IF k = "sharpe_ratio" THEN v ELSE v[i]

Table(c, index) ==
    [index |-> index,
     columns |-> Keys(c),
     rows |-> [i \in 1..Len(index) |-> [n \in 1..Len(c) |-> Cell(c[n].key, c[n].val, i)]]]

\* the statements of get_all_metric, each skipped once an earlier one has raised
then_alpha(p, r) == IF p.kind = "raise" THEN p ELSE get_alpha(p, r)

then_return(p) == IF p.kind = "raise" THEN p ELSE get_return(p)

then_tracking_error(p) == IF p.kind = "raise" THEN p ELSE get_tracking_error(p)

then_treynor_ratio(p, r) == IF p.kind = "raise" THEN p ELSE get_treynor_ratio(p, r)

then_sharpe_ratio(p, r) == IF p.kind = "raise" THEN p ELSE get_sharpe_ratio(p, r)

\* return pd.DataFrame(self.performace, index=self.benchmarks.get_daily_return().columns)
then_table(p) ==
    IF p.kind = "raise" THEN p
    ELSE Returned(Called(p, {"B.get_daily_return"}),
                  Table(p.c, BenchDailyReturn(bench).columns))

\* a variant of get_all_metric that leaves get_return out
get_all_metric_no_return(p, r) ==
    then_table(then_sharpe_ratio(then_treynor_ratio(then_tracking_error(
        then_alpha(get_beta(p), r)), r), r))

\* Performance.get_all_metric
get_all_metric(p, r) ==
    then_table(then_sharpe_ratio(then_treynor_ratio(then_tracking_error(then_return(
        then_alpha(get_beta(p), r))), r), r))

\* the report after a call, and what the call gave its caller
Finish(op, r, p) ==
    /\ ncalls < MaxCalls
    /\ ncalls' = ncalls + 1
    /\ performace' = p.c
    /\ made' = p.m
    /\ pret' = [op |-> op, r |-> r, kind |-> p.kind, val |-> p.val, err |-> p.err,
                calls |-> p.calls, computed |-> p.computed]
    /\ UNCHANGED <<ents, ver, bench, bret>>
    /\ UNCHANGED <<svars, qvars, fvars>>

\* risk-free rates a caller passes: 0 and 1/2
RiskFree == {Zero, R(1, 2)}

GetBeta == Finish("get_beta", Null, get_beta(Call(performace, made)))

GetAlpha == \E r \in RiskFree : Finish("get_alpha", r, get_alpha(Call(performace, made), r))

GetReturn == Finish("get_return", Null, get_return(Call(performace, made)))

GetTrackingError ==
    Finish("get_tracking_error", Null, get_tracking_error(Call(performace, made)))

GetTreynorRatio ==
    \E r \in RiskFree :
        Finish("get_treynor_ratio", r, get_treynor_ratio(Call(performace, made), r))

GetSharpeRatio ==
    \E r \in RiskFree :
        Finish("get_sharpe_ratio", r, get_sharpe_ratio(Call(performace, made), r))

GetAllMetric ==
    \E r \in RiskFree :
        Finish("get_all_metric", r, get_all_metric(Call(performace, made), r))

\* The report keeps references to its entities: the evaluated entity's data may
\* change under it (once, in this model).
EntityChanges ==
    /\ ver = 1
    /\ ver' = 2
    /\ UNCHANGED <<ents, bench, bret, performace, made, pret, ncalls>>
    /\ UNCHANGED <<svars, qvars, fvars>>

\* price tables of the report's entities: one calendar year, prices above zero
Row(d, o, c) == [Date |-> d, Open |-> o, Close |-> c]

\* the evaluated entity: no rows; returns 0, 100 (CAGR 1); returns 100, 100 (CAGR 1)
EntTables ==
    {<<>>,
     <<Row(101, 1, 1), Row(102, 1, 2)>>,
     <<Row(101, 1, 2), Row(102, 1, 2)>>}

\* benchmark constituents: X (returns 0, 100, 0; CAGR 0), Y (returns 100, 200; CAGR 2)
BenchX == [name |-> "X", df |-> <<Row(101, 1, 1), Row(102, 1, 2), Row(103, 1, 1)>>]
BenchY == [name |-> "Y", df |-> <<Row(101, 1, 2), Row(102, 1, 3)>>]

\* Z has the rows of the second entity table, W (constant returns) those of the third
BenchZ == [name |-> "Z", df |-> <<Row(101, 1, 1), Row(102, 1, 2)>>]
BenchW == [name |-> "W", df |-> <<Row(101, 1, 2), Row(102, 1, 2)>>]

\* V has a row with Open 0, hence an infinite return
BenchV == [name |-> "V", df |-> <<Row(101, 0, 2), Row(102, 1, 2)>>]

\* a second constituent named "X", with other prices
BenchX2 == [name |-> "X", df |-> <<Row(101, 2, 3)>>]

\* constituents a caller may hand to Benchmark
BenchStocks == {BenchX, BenchY, BenchZ, BenchW, BenchX2}

Benchmarks == {<<BenchX>>, <<BenchY>>, <<BenchY, BenchX>>, <<BenchX, BenchZ>>, <<BenchW>>}

\* -------------------------------------------------------------- PortFolio
\* the dates of a daily-return series, in its order
IndexOf(dr) == [i \in 1..Len(dr) |-> dr[i].date]

HasDuplicates(ix) == \E i, j \in 1..Len(ix) : i # j /\ ix[i] = ix[j]

RangeOf(q) == {q[i] : i \in 1..Len(q)}

\* the labels of ix in the order of their first appearance
RECURSIVE FirstAppearance(_)
FirstAppearance(ix) ==
    IF ix = <<>> THEN <<>>
    ELSE LET front == FirstAppearance(SubSeq(ix, 1, Len(ix) - 1))
             last == ix[Len(ix)]
         IN  IF last \in RangeOf(front) THEN front ELSE Append(front, last)

\* the indexes of the series, one after the other
RECURSIVE Chain(_, _)
Chain(drs, n) == IF n = 0 THEN <<>> ELSE Chain(drs, n - 1) \o IndexOf(drs[n])

\* pd.concat(series, axis=1), sort=False: the frame's index, or the exception.
\* Equal indexes are taken as they are; otherwise the frame is reindexed on their
\* union, the labels in the order of their first appearance over the series,
\* which pandas refuses for a series with duplicate labels.
ConcatIndex(drs) ==
    IF Len(drs) = 0 THEN Raise("concat", "ValueError: No objects to concatenate")
    ELSE IF \A i \in 1..Len(drs) : IndexOf(drs[i]) = IndexOf(drs[1])
    THEN Ok("concat", IndexOf(drs[1]))
    ELSE IF \E i \in 1..Len(drs) : HasDuplicates(IndexOf(drs[i]))
    THEN Raise("concat", "ValueError: cannot reindex on an axis with duplicate labels")
    ELSE Ok("concat", FirstAppearance(Chain(drs, Len(drs))))

\* the cell of column i in row n of the concatenated frame: NaN where the series
\* has no such date
ConcatCell(drs, ix, aligned, i, n) ==
    IF aligned THEN drs[i][n].val
    ELSE IF \E m \in 1..Len(drs[i]) : drs[i][m].date = ix[n]
    THEN drs[i][CHOOSE m \in 1..Len(drs[i]) : drs[i][m].date = ix[n]].val
    ELSE NaN

\* DataFrame.sum(axis=1): NaN cells are skipped
SumSkipNaN(cells) == SumSeq(SelectSeq(cells, LAMBDA c : ~IsNaN(c)))

\* PortFolio.get_daily_return
PortDailyReturn(p) ==
    LET drs == [i \in 1..Len(p.stocks) |-> StockDailyReturn(p.stocks[i])]
        cx == ConcatIndex(drs)
        ix == cx.val
        aligned == \A i \in 1..Len(drs) : IndexOf(drs[i]) = IndexOf(drs[1])
    IN  IF cx.kind = "raise" THEN Raise("get_daily_return", cx.err)
        ELSE IF Len(p.weights) # Len(p.stocks)
        THEN Raise("get_daily_return", "ValueError: Unable to coerce to Series")
        ELSE Ok("get_daily_return",
                [n \in 1..Len(ix) |->
                    [date |-> ix[n],
                     val |-> SumSkipNaN([i \in 1..Len(drs) |->
                                Mul(ConcatCell(drs, ix, aligned, i, n), p.weights[i])])]])

\* a variant of PortCagr that pairs the constituents with the weights in reverse order
PortCagrReversed(p) ==
    LET k == Len(p.stocks)
    IN  IF k # Len(p.weights)
        THEN Raise("get_cagr", "ValueError: operands could not be broadcast together")
        ELSE Ok("get_cagr",
                SumSeq([i \in 1..k |-> Mul(StockCagr(p.stocks[i]).val, p.weights[k + 1 - i])]))

\* PortFolio.get_cagr: np.sum(cagrs * weights), numpy broadcasting a length of 1
PortCagr(p) ==
    LET k == Len(p.stocks)
        w == Len(p.weights)
        n == IF k = 1 THEN w ELSE k
    IN  IF \E i \in 1..k : StockCagr(p.stocks[i]).kind = "raise"
        THEN Raise("get_cagr", "IndexError")
        ELSE IF k # w /\ k # 1 /\ w # 1
        THEN Raise("get_cagr", "ValueError: operands could not be broadcast together")
        ELSE Ok("get_cagr",
                SumSeq([i \in 1..n |->
                    Mul(StockCagr(p.stocks[IF k = 1 THEN 1 ELSE i]).val,
                        p.weights[IF w = 1 THEN 1 ELSE i])]))

\* PortFolio.get_std
PortStd(p) ==
    LET dr == PortDailyReturn(p)
    IN  IF dr.kind = "raise" THEN Raise("get_std", dr.err)
        ELSE Ok("get_std",
                [sq |-> CovPairs([i \in 1..Len(dr.val) |-> <<dr.val[i].val, dr.val[i].val>>])])

\* constituents a caller may hand to PortFolio: prices above zero, one calendar year;
\* P3 has two rows of one date
PortStocks ==
    {[name |-> "P1", df |-> <<Row(101, 1, 2)>>],
     [name |-> "P2", df |-> <<Row(101, 2, 1), Row(102, 1, 2)>>],
     [name |-> "P3", df |-> <<Row(101, 1, 2), Row(101, 2, 1)>>],
     [name |-> "P4", df |-> <<Row(102, 2, 2), Row(103, 2, 3)>>]}

\* weights a caller passes: 1/4, 1/2, 3/4, 1
Weights == {R(1, 4), R(1, 2), R(3, 4), One}

\* PortFolio.__init__ stores what it is given
NewPortFolio ==
    /\ port = Null
    /\ \E st \in SeqsUpTo(PortStocks, MaxStocks), w \in SeqsUpTo(Weights, MaxStocks) :
          /\ port' = [stocks |-> st, weights |-> w]
          /\ qret' = Ok("PortFolio", Null)
    /\ UNCHANGED <<svars, pvars, fvars>>

PortGetDailyReturn ==
    /\ port # Null
    /\ qret' = PortDailyReturn(port)
    /\ UNCHANGED <<port, svars, pvars, fvars>>

PortGetCagr ==
    /\ port # Null
    /\ qret' = PortCagr(port)
    /\ UNCHANGED <<port, svars, pvars, fvars>>

PortGetStd ==
    /\ port # Null
    /\ qret' = PortStd(port)
    /\ UNCHANGED <<port, svars, pvars, fvars>>

\* ----------------------------------------------- StockFactory, PortfolioFactory
\* a symbol is its characters
LetterChars == {"A", "B"}

Symbols == {<<"A">>, <<"A", "1">>, <<"B">>, <<"^", "B">>}

\* "".join(re.findall(r'[a-zA-Z]', stock_name))
Letters(sym) == SelectSeq(sym, LAMBDA ch : ch \in LetterChars)

\* the factory's date range and frequency, as they appear in a file name
FormatedDate1 == "20200101"
FormatedDate2 == "20201231"
Freq == "1d"

FileName(sym) == [stem |-> Letters(sym), date1 |-> FormatedDate1, date2 |-> FormatedDate2,
                  freq |-> Freq]

\* The price provider (yf.download): for each symbol a frame indexed by Date with
\* Open and Close columns; the symbols' frames differ.
ProviderData(sym) ==
    [index_name |-> "Date",
     columns |-> {"Open", "Close", "Volume"},
     index |-> <<101, 102>>,
     rows |-> <<[Open |-> 1, Close |-> Len(sym) + 1],
                [Open |-> 2, Close |-> IF sym[1] = "^" THEN 1 ELSE 2]>>]

\* df.to_csv(file_path): the index is written as a column under its name
ToCsv(frame) ==
    [header |-> {frame.index_name} \cup frame.columns,
     lines |-> [i \in 1..Len(frame.index) |->
                  [Date |-> frame.index[i], Open |-> frame.rows[i].Open,
                   Close |-> frame.rows[i].Close]]]

\* pd.read_csv(file_path)
ReadCsv(file) == [isDF |-> TRUE, cols |-> file.header, rows |-> file.lines]

\* StockFactory.__load_stock_data: download when the file is missing, then read it
LoadStockData(fs, sym) ==
    LET file_path == FileName(sym)
        missing == file_path \notin DOMAIN fs
        fs1 == IF missing
               THEN [f \in DOMAIN fs \cup {file_path} |->
                        IF f = file_path THEN ToCsv(ProviderData(sym)) ELSE fs[f]]
               ELSE fs
    IN  [files |-> fs1, downloaded |-> missing, df |-> ReadCsv(fs1[file_path])]

\* StockFactory.create_stock
CreateStockIn(fs, sym) ==
    LET ld == LoadStockData(fs, sym)
    IN  [files |-> ld.files, downloaded |-> ld.downloaded, out |-> StockInit(sym, ld.df)]

\* [self.__create_stock(stock) for stock in stocks]: the folder, the Stocks made and
\* the symbols downloaded after the first n symbols
RECURSIVE CreateStocks(_, _, _)
CreateStocks(fs, syms, n) ==
    IF n = 0 THEN [files |-> fs, stocks |-> <<>>, downloaded |-> <<>>]
    ELSE LET prev == CreateStocks(fs, syms, n - 1)
             cs == CreateStockIn(prev.files, syms[n])
         IN  [files |-> cs.files,
              stocks |-> Append(prev.stocks, cs.out.val),
              downloaded |-> IF cs.downloaded THEN Append(prev.downloaded, syms[n])
                             ELSE prev.downloaded]

FactoryRet(op, args, kind, val, err, created, downloaded) ==
    [op |-> op, args |-> args, kind |-> kind, val |-> val, err |-> err,
     created |-> created, downloaded |-> downloaded]

\* a variant of create_portfolio without the comparison of the two lengths
create_portfolio_no_length_check(fs, stocks, weights) ==
    LET args == [stocks |-> stocks, weights |-> weights]
        made_ == CreateStocks(fs, stocks, Len(stocks))
    IN  IF SumSeq(weights) # One
        THEN [files |-> fs,
              ret |-> FactoryRet("create_portfolio", args, "raise", Null,
                                 "Exception: Sum of all weight should be 1", <<>>, <<>>)]
        ELSE [files |-> made_.files,
              ret |-> FactoryRet("create_portfolio", args, "ok",
                                 [stocks |-> made_.stocks, weights |-> weights], "",
                                 made_.stocks, made_.downloaded)]

\* PortfolioFactory.create_portfolio
create_portfolio(fs, stocks, weights) ==
    LET args == [stocks |-> stocks, weights |-> weights]
        made_ == CreateStocks(fs, stocks, Len(stocks))
    IN  IF Len(stocks) # Len(weights)
        THEN [files |-> fs,
              ret |-> FactoryRet("create_portfolio", args, "raise", Null,
                                 "Exception: Please provide weight for all stocks", <<>>, <<>>)]
        ELSE IF SumSeq(weights) # One
        THEN [files |-> fs,
              ret |-> FactoryRet("create_portfolio", args, "raise", Null,
                                 "Exception: Sum of all weight should be 1", <<>>, <<>>)]
        ELSE [files |-> made_.files,
              ret |-> FactoryRet("create_portfolio", args, "ok",
                                 [stocks |-> made_.stocks, weights |-> weights], "",
                                 made_.stocks, made_.downloaded)]

\* BenchmarkFactory.create_benchmark: a Stock per symbol, no checks
create_benchmark(fs, stocks) ==
    LET made_ == CreateStocks(fs, stocks, Len(stocks))
    IN  [files |-> made_.files,
         ret |-> FactoryRet("create_benchmark", [stocks |-> stocks, weights |-> <<>>], "ok",
                            made_.stocks, "", made_.stocks, made_.downloaded)]

CreateBenchmark ==
    /\ request # Null
    /\ LET out == create_benchmark(files, request.stocks)
       IN  /\ files' = out.files
           /\ fret' = out.ret
    /\ UNCHANGED <<request, svars, pvars, qvars>>

CreatePortfolio ==
    /\ request # Null
    /\ LET out == create_portfolio(files, request.stocks, request.weights)
       IN  /\ files' = out.files
           /\ fret' = out.ret
    /\ UNCHANGED <<request, svars, pvars, qvars>>

CreateStock ==
    /\ \E sym \in Symbols :
          LET cs == CreateStockIn(files, sym)
          IN  /\ files' = cs.files
              /\ fret' = FactoryRet("create_stock", [stocks |-> <<sym>>, weights |-> <<>>],
                                    cs.out.kind, cs.out.val, cs.out.err,
                                    IF cs.out.kind = "ok" THEN <<cs.out.val>> ELSE <<>>,
                                    IF cs.downloaded THEN <<sym>> ELSE <<>>)
    /\ UNCHANGED <<request, svars, pvars, qvars>>

\* ------------------------------------------------------------ specifications
PerfIdleRet ==
    [op |-> "none", r |-> Null, kind |-> "ok", val |-> Null, err |-> "",
     calls |-> {}, computed |-> {}]

PerfIdle ==
    /\ ents = <<>>
    /\ ver = 0
    /\ bench = <<>>
    /\ performace = <<>>
    /\ made = <<>>
    /\ pret = PerfIdleRet
    /\ bret = Idle
    /\ ncalls = 0

StockStart ==
    /\ stock = Null
    /\ sret = Idle

PortStart ==
    /\ port = Null
    /\ qret = Idle

FactoryIdleRet == FactoryRet("none", Null, "ok", Null, "", <<>>, <<>>)

FactoryStart ==
    /\ files = <<>>
    /\ request = Null
    /\ fret = FactoryIdleRet

\* one Stock: construction, then its operations in any order
InitStock == StockStart /\ PerfIdle /\ PortStart /\ FactoryStart

NextStock ==
    \/ NewStock
    \/ StockGetDailyReturn
    \/ StockGetCagr
    \/ StockGetStd
    \/ StockGetDataframe

SpecStock == InitStock /\ [][NextStock]_vars

\* one Performance report over an evaluated Stock and a Benchmark
InitPerf ==
    /\ StockStart
    /\ PortStart
    /\ FactoryStart
    /\ ents \in {<<[name |-> "E", df |-> t[1]], [name |-> "E", df |-> t[2]]>> :
                    t \in {u \in EntTables \X EntTables : u[1] # u[2]}}
    /\ ver = 1
    /\ bench \in Benchmarks
    /\ performace = <<>>
    /\ made = <<>>
    /\ pret = PerfIdleRet
    /\ bret = Idle
    /\ ncalls = 0

NextPerf ==
    \/ GetBeta
    \/ GetAlpha
    \/ GetReturn
    \/ GetTrackingError
    \/ GetTreynorRatio
    \/ GetSharpeRatio
    \/ GetAllMetric
    \/ EntityChanges

SpecPerf == InitPerf /\ [][NextPerf]_vars

\* one PortFolio: construction, then its operations in any order
NextPortfolio ==
    \/ NewPortFolio
    \/ PortGetDailyReturn
    \/ PortGetCagr
    \/ PortGetStd

SpecPortfolio == InitStock /\ [][NextPortfolio]_vars

\* the factories, over one download folder
NextFactory == CreatePortfolio \/ CreateBenchmark \/ CreateStock

\* weights a caller asks the factory for: 1/4, 1/2, 1
FactoryWeights == {R(1, 4), R(1, 2), One}

InitFactory ==
    /\ StockStart
    /\ PerfIdle
    /\ PortStart
    /\ files = <<>>
    /\ request \in [stocks : SeqsUpTo(Symbols, MaxStocks),
                    weights : SeqsUpTo(FactoryWeights, MaxStocks)]
    /\ fret = FactoryIdleRet

SpecFactory == InitFactory /\ [][NextFactory]_vars

\* one Benchmark of up to MaxStocks constituents, and the operations on it
InitBenchmark ==
    /\ StockStart
    /\ PortStart
    /\ FactoryStart
    /\ ents = <<>>
    /\ ver = 0
    /\ bench \in SeqsUpTo(BenchStocks, MaxStocks)
    /\ bret = Idle
    /\ performace = <<>>
    /\ made = <<>>
    /\ pret = PerfIdleRet
    /\ ncalls = 0

NextBenchmark ==
    \/ BenchmarkGetStock
    \/ BenchmarkGetStocks
    \/ BenchmarkGetStocksName
    \/ BenchmarkGetTotalStocks
    \/ BenchmarkGetCagr

SpecBenchmark == InitBenchmark /\ [][NextBenchmark]_vars

\* price tables of the evaluated entity of a report on daily returns: those of
\* EntTables, the rows of X and the rows of V
BetaTables == EntTables \cup {BenchX.df, BenchV.df}

\* constituents of the benchmark of such a report, of different names
BetaStocks == {BenchX, BenchY, BenchZ, BenchW, BenchV}

\* one Performance report and its metrics of daily returns, over a benchmark of one
\* to MaxStocks constituents, no two of one name
InitBetaReport ==
    /\ StockStart
    /\ PortStart
    /\ FactoryStart
    /\ ents \in {<<[name |-> "E", df |-> t[1]], [name |-> "E", df |-> t[2]]>> :
                    t \in {u \in BetaTables \X BetaTables : u[1] # u[2]}}
    /\ ver = 1
    /\ bench \in {b \in SeqsUpTo(BetaStocks, MaxStocks) :
                     /\ b # <<>>
                     /\ \A i, j \in 1..Len(b) : b[i].name = b[j].name => i = j}
    /\ bret = Idle
    /\ performace = <<>>
    /\ made = <<>>
    /\ pret = PerfIdleRet
    /\ ncalls = 0

NextBetaReport ==
    \/ GetBeta
    \/ GetTrackingError
    \/ EntityChanges

SpecBetaReport == InitBetaReport /\ [][NextBetaReport]_vars

Spec == SpecPerf

\* ------------------------------------------------------- claims: Performance
KeySet(c) == {c[i].key : i \in 1..Len(c)}

Getter(k) ==
    CASE k = "beta" -> "get_beta"
      [] k = "alpha" -> "get_alpha"
      [] k = "return" -> "get_return"
      [] k = "tracking_error" -> "get_tracking_error"
      [] k = "treynor_ratio" -> "get_treynor_ratio"
      [] k = "sharpe_ratio" -> "get_sharpe_ratio"

\* the step is a call served by the report
Served == ncalls' # ncalls

\* C1: a cached metric keeps its value for ever, no later call computes it again,
\* and its getter then returns the cached value without a call into the evaluated
\* entity or the benchmark, also after the entity has changed.
C1_CachedOnce ==
    [][\A k \in KeySet(performace) :
          /\ k \in KeySet(performace')
          /\ Get(performace', k) = Get(performace, k)
          /\ Served => k \notin pret'.computed
          /\ (Served /\ pret'.op = Getter(k)) =>
                /\ pret'.kind = "ok"
                /\ pret'.val = Get(performace, k)
                /\ pret'.calls = {}
                /\ pret'.computed = {}]_vars

\* a getter answered from the cache after the entity changed to one whose beta differs
C1_Witness ==
    /\ pret.op = "get_beta"
    /\ pret.computed = {}
    /\ ver = 2
    /\ made["beta"].ver = 1
    /\ pret.val # BetaValue(Ent, bench)

\* the CAGRs the formulas of the spec speak of
CagrOf(s) == Sub(Div(R(s.df[Len(s.df)].Close, 1), R(s.df[1].Open, 1)), One)

\* what the spec gives for a metric that takes the risk-free rate, from the entity e,
\* the rate r and the vector beta
SpecAlpha(e, beta, r, j) == Sub(Sub(CagrOf(e), r), Mul(beta[j], CagrOf(bench[j])))
SpecTreynor(e, beta, r, j) == Div(Sub(CagrOf(e), r), beta[j])
SpecSharpe(e, r) == [num |-> Sub(CagrOf(e), r), sq |-> StockStd(e).sq]

RateMetrics == {"alpha", "treynor_ratio", "sharpe_ratio"}

IsSpecValue(k, v, e, beta, r) ==
    CASE k = "alpha" -> Len(v) = Len(bench) /\ \A j \in 1..Len(bench) : v[j] = SpecAlpha(e, beta, r, j)
      [] k = "treynor_ratio" ->
            Len(v) = Len(bench) /\ \A j \in 1..Len(bench) : v[j] = SpecTreynor(e, beta, r, j)
      [] k = "sharpe_ratio" -> v = SpecSharpe(e, r)

\* C2 as claimed: every get_alpha(r), get_treynor_ratio(r), get_sharpe_ratio(r) that
\* returns gives the formula's value for the r of that call (stated for reports whose
\* entity never changed).
C2_RateOfThisCall ==
    \A k \in RateMetrics :
        (ver = 1 /\ pret.op = Getter(k) /\ pret.kind = "ok") =>
            IsSpecValue(k, pret.val, Ent, Get(performace, "beta"), pret.r)

\* C2 amended: the value returned is the formula's value for the rate and the entity
\* of the call that cached the metric, which is this call exactly when the metric
\* was not cached before it.
C2_RateOfCachingCall ==
    \A k \in RateMetrics :
        (pret.op = Getter(k) /\ pret.kind = "ok") =>
            /\ k \in KeySet(performace)
            /\ pret.val = Get(performace, k)
            /\ IsSpecValue(k, pret.val, ents[made[k].ver],
                           IF k = "sharpe_ratio" THEN <<>> ELSE Get(performace, "beta"),
                           made[k].r)
            /\ k \in pret.computed => made[k].r = pret.r

\* get_alpha(1/2) answered with the alpha cached for the rate 0
C2_Witness ==
    /\ pret.op = "get_alpha"
    /\ pret.kind = "ok"
    /\ pret.computed = {}
    /\ pret.r = R(1, 2)
    /\ made["alpha"].r = Zero
    /\ \E j \in 1..Len(bench) : IsFinite(pret.val[j])

\* C3: get_alpha and get_treynor_ratio, when they compute, leave beta cached and
\* compute from the cached beta; they compute beta only when it was not cached, and
\* a following get_beta returns the cached beta without computing.
C3_BetaOnDemand ==
    [][Served =>
        /\ \A k \in {"alpha", "treynor_ratio"} :
              (pret'.op = Getter(k) /\ pret'.kind = "ok") =>
                 /\ "beta" \in KeySet(performace')
                 /\ k \in pret'.computed =>
                       IsSpecValue(k, pret'.val, Ent, Get(performace', "beta"), pret'.r)
                 /\ "beta" \in KeySet(performace) =>
                       /\ "beta" \notin pret'.computed
                       /\ Get(performace', "beta") = Get(performace, "beta")
                 /\ ("beta" \notin KeySet(performace) /\ k \in pret'.computed) =>
                       /\ "beta" \in pret'.computed
                       /\ Get(performace', "beta") = BetaValue(Ent, bench)
        /\ (pret'.op = "get_beta" /\ "beta" \in KeySet(performace)) =>
              /\ pret'.val = Get(performace, "beta")
              /\ pret'.computed = {}
              /\ pret'.calls = {}]_vars

\* get_treynor_ratio computed beta on the way, with a finite result
C3_Witness ==
    /\ pret.op = "get_treynor_ratio"
    /\ pret.kind = "ok"
    /\ pret.computed = {"beta", "treynor_ratio"}
    /\ IsFinite(pret.val[1])
    /\ pret.val[1] # Zero

\* the keys of the dict c that are in the set S, in the dict's order
RECURSIVE Restrict(_, _)
Restrict(ks, S) ==
    IF ks = <<>> THEN <<>>
    ELSE IF Head(ks) \in S THEN <<Head(ks)>> \o Restrict(Tail(ks), S)
    ELSE Restrict(Tail(ks), S)

\* C4: get_all_metric(r) computes the metrics not yet cached, in the order beta,
\* alpha, return, tracking_error, treynor_ratio, sharpe_ratio, and returns a table
\* with one row per benchmark constituent, labelled by its name in constituent
\* order, and one column per metric; afterwards all six are cached.
C4_AllMetric ==
    [][(Served /\ pret'.op = "get_all_metric" /\ pret'.kind = "ok") =>
        LET t == pret'.val
        IN  /\ KeySet(performace') = MetricNames
            /\ Len(performace') = 6
            /\ pret'.computed = MetricNames \ KeySet(performace)
            /\ Keys(performace') =
                  Keys(performace) \o Restrict(Metrics, MetricNames \ KeySet(performace))
            /\ t.index = [j \in 1..Len(bench) |-> bench[j].name]
            /\ Len(t.columns) = 6
            /\ {t.columns[n] : n \in 1..6} = MetricNames
            /\ Len(t.rows) = Len(bench)
            /\ \A i \in 1..Len(bench), n \in 1..6 :
                  t.rows[i][n] =
                     IF t.columns[n] = "sharpe_ratio"
                     THEN Get(performace', "sharpe_ratio")
                     ELSE Get(performace', t.columns[n])[i]]_vars

\* get_all_metric on a two-constituent benchmark after two getters were called
C4_Witness ==
    /\ pret.op = "get_all_metric"
    /\ pret.kind = "ok"
    /\ Len(bench) = 2
    /\ Keys(performace)[1] = "sharpe_ratio"
    /\ Keys(performace)[2] = "return"
    /\ pret.computed = MetricNames \ {"sharpe_ratio", "return"}

\* the dates both the entity and constituent j have
Overlap(e, j) ==
    {e.df[i].Date : i \in 1..Len(e.df)} \cap {bench[j].df[i].Date : i \in 1..Len(bench[j].df)}

\* a series restricted to the dates in D
Only(x, D) == [d \in DOMAIN x \cap D |-> x[d]]

\* beta as the spec defines it: covariance and variance both over the overlap
SpecBeta(e, j) ==
    LET c == Only(SeriesOf(StockDailyReturn(bench[j])), Overlap(e, j))
        x == Only(SeriesOf(StockDailyReturn(e)), Overlap(e, j))
    IN  Div(CovSeries(c, x), VarSeries(c))

\* C5 as claimed: entry j of beta is cov(c_j, E) / var(c_j), both taken over exactly
\* the dates that E and c_j have in common.
C5_BetaOverOverlap ==
    "beta" \in KeySet(performace) =>
        \A j \in 1..Len(bench) :
            Get(performace, "beta")[j] = SpecBeta(ents[made["beta"].ver], j)

\* C6 as claimed: get_return with a zero benchmark CAGR, and get_treynor_ratio with
\* a zero beta, raise and cache nothing; no ratio is returned or stored as inf or NaN.
C6_ZeroDivisorRaises ==
    /\ (/\ pret.op = "get_return"
        /\ \E j \in 1..Len(bench) : CagrOf(bench[j]) = Zero) =>
            (pret.kind = "raise" /\ "return" \notin KeySet(performace))
    /\ (/\ pret.op = "get_treynor_ratio"
        /\ "beta" \in KeySet(performace)
        /\ \E j \in 1..Len(bench) : Get(performace, "beta")[j] = Zero) =>
            (pret.kind = "raise" /\ "treynor_ratio" \notin KeySet(performace))

\* ------------------------------------------------------------ claims: Stock
\* C7 as claimed: get_cagr on a series whose earliest row has Open = 0 fails with an
\* error and returns no value.
C7_ZeroOpenRaises ==
    (stock # Null /\ sret.op = "get_cagr" /\ stock.df # <<>> /\ stock.df[1].Open = 0) =>
        sret.kind = "raise"

\* C10 as claimed: the dates of a constructed Stock's stored series are strictly
\* increasing, hence unique, whatever table it was given and whatever was called.
C10_DatesStrictlyIncreasing ==
    stock # Null =>
        \A i \in 1..Len(stock.df) - 1 : stock.df[i].Date < stock.df[i + 1].Date

\* ------------------------------------------- claims: PortfolioFactory, PortFolio
\* C8: create_portfolio raises whenever the lengths differ or the weights do not
\* sum to 1, and then creates no Stock, downloads nothing and returns no PortFolio;
\* otherwise it returns a PortFolio of one Stock per symbol, in order, with the
\* weights given.
C8_FactoryValidates ==
    [][fret'.op = "create_portfolio" =>
        LET a == fret'.args
            bad == Len(a.stocks) # Len(a.weights) \/ SumSeq(a.weights) # One
        IN  /\ a = request
            /\ bad =>
                  /\ fret'.kind = "raise"
                  /\ fret'.val = Null
                  /\ fret'.created = <<>>
                  /\ fret'.downloaded = <<>>
                  /\ files' = files
            /\ ~bad =>
                  /\ fret'.kind = "ok"
                  /\ Len(fret'.val.stocks) = Len(a.stocks)
                  /\ \A i \in 1..Len(a.stocks) : fret'.val.stocks[i].name = a.stocks[i]
                  /\ fret'.val.weights = a.weights
                  /\ fret'.created = fret'.val.stocks]_vars

\* two symbols with the single weight 1 were refused, leaving the folder empty
C8_Witness ==
    /\ fret.op = "create_portfolio"
    /\ fret.kind = "raise"
    /\ Len(fret.args.stocks) = 2
    /\ fret.args.weights = <<One>>
    /\ files = <<>>

\* the dates of the constituents of the portfolio p
PortDates(p) ==
    UNION {{p.stocks[i].df[n].Date : n \in 1..Len(p.stocks[i].df)} : i \in 1..Len(p.stocks)}

\* the constituents of p that have the date d
Having(p, d) ==
    {i \in 1..Len(p.stocks) : \E n \in 1..Len(p.stocks[i].df) : p.stocks[i].df[n].Date = d}

\* weight_i * return_i(d)
Contribution(p, i, d) ==
    LET n == CHOOSE n \in 1..Len(p.stocks[i].df) : p.stocks[i].df[n].Date = d
    IN  Mul(p.weights[i], RowReturn(p.stocks[i].df[n]))

\* C9 as claimed: get_daily_return of a portfolio with one weight per constituent
\* yields exactly one entry for each date some constituent has, equal to the sum of
\* weight_i * return_i(date) over the constituents that have the date.
C9_OuterJoinWeightedSum ==
    (/\ port # Null
     /\ qret.op = "get_daily_return"
     /\ Len(port.stocks) >= 1
     /\ Len(port.weights) = Len(port.stocks)) =>
        /\ qret.kind = "ok"
        /\ {qret.val[n].date : n \in 1..Len(qret.val)} = PortDates(port)
        /\ \A d \in PortDates(port) :
              /\ Cardinality({n \in 1..Len(qret.val) : qret.val[n].date = d}) = 1
              /\ \A n \in 1..Len(qret.val) :
                    qret.val[n].date = d =>
                       LET hs == SetToSeq(Having(port, d))
                       IN  qret.val[n].val =
                              SumSeq([k \in 1..Len(hs) |-> Contribution(port, hs[k], d)])

\* --------------------------------------------------- claims: Stock, continued
\* two rows of the table have one date
DuplicateDates(rows) == \E i, j \in 1..Len(rows) : i # j /\ rows[i].Date = rows[j].Date

\* C11 as claimed: constructing a Stock fails, producing no Stock, when the table
\* lacks Date, Open or Close or has duplicate dates; it succeeds for a table with
\* the three fields (extra fields allowed) and unique dates.
C11_ConstructionValidates ==
    sret.op = "Stock" =>
        LET inp == sret.val
            lacks == ~(RequiredCols \subseteq inp.cols)
        IN  /\ (lacks \/ DuplicateDates(inp.rows)) => (sret.kind = "raise" /\ stock = Null)
            /\ (inp.isDF /\ ~lacks /\ ~DuplicateDates(inp.rows)) =>
                  (sret.kind = "ok" /\ stock # Null)

\* ------------------------------------------- claims: Performance, continued
BenchmarkCalls == {"B.get_daily_return", "B.get_cagr"}

\* C12: get_sharpe_ratio(r), when it computes (as on a fresh report), gives a
\* value and an outcome that are a function of the evaluated entity and r alone,
\* (E.cagr() - r) / E.volatility(), and makes no call into the benchmark; two
\* reports over one entity with different benchmarks therefore agree.
C12_SharpeIgnoresBenchmark ==
    [][(Served /\ pret'.op = "get_sharpe_ratio" /\ "sharpe_ratio" \notin KeySet(performace)) =>
        /\ pret'.calls \cap BenchmarkCalls = {}
        /\ pret'.kind = (IF Ent.df = <<>> THEN "raise" ELSE "ok")
        /\ pret'.kind = "ok" =>
              /\ pret'.val = SpecSharpe(Ent, pret'.r)
              /\ Get(performace', "sharpe_ratio") = SpecSharpe(Ent, pret'.r)]_vars

\* the first call on a report with two benchmark constituents, a finite ratio
C12_Witness ==
    /\ pret.op = "get_sharpe_ratio"
    /\ pret.kind = "ok"
    /\ ncalls = 1
    /\ Len(bench) = 2
    /\ pret.r = R(1, 2)
    /\ IsFinite(pret.val.num)
    /\ IsFinite(pret.val.sq) /\ pret.val.sq # Zero

\* the entity whose beta is cached
BetaEntity == ents[made["beta"].ver]

\* the daily returns of e and of constituent j are one series: same dates, same values
SameReturns(e, j) == SeriesOf(StockDailyReturn(e)) = SeriesOf(StockDailyReturn(bench[j]))

\* the series has at least two entries and its values are not all equal
Varies(x) == \E d1, d2 \in DOMAIN x : x[d1] # x[d2]

\* every value of the series is a finite number
AllFinite(x) == \A d \in DOMAIN x : IsFinite(x[d])

\* no other constituent has the name of constituent j
OnlyOfItsName(j) == \A k \in 1..Len(bench) : bench[k].name = bench[j].name => k = j

RECURSIVE WeightedCagr(_, _)
WeightedCagr(p, n) ==
    IF n = 0 THEN Zero
    ELSE Add(WeightedCagr(p, n - 1), Mul(p.weights[n], CagrOf(p.stocks[n])))

\* C14: get_cagr of a portfolio with as many weights as constituents returns the
\* sum over the constituents of weight_i * cagr_i, each constituent paired with
\* the weight at its position.
C14_WeightedCagr ==
    (port # Null /\ qret.op = "get_cagr" /\ Len(port.weights) = Len(port.stocks)) =>
        /\ qret.kind = "ok"
        /\ qret.val = WeightedCagr(port, Len(port.stocks))

\* two constituents of different CAGR under different weights
C14_Witness ==
    /\ port # Null
    /\ qret.op = "get_cagr"
    /\ qret.kind = "ok"
    /\ Len(port.stocks) = 2
    /\ Len(port.weights) = 2
    /\ port.weights[1] # port.weights[2]
    /\ CagrOf(port.stocks[1]) # CagrOf(port.stocks[2])
    /\ qret.val = Add(Mul(port.weights[1], CagrOf(port.stocks[1])),
                      Mul(port.weights[2], CagrOf(port.stocks[2])))
    /\ qret.val # Zero

\* --------------------------------------------------- claims: Stock, continued
\* the orders in which the rows of a table can be supplied
Reorderings(rows) ==
    {[i \in 1..Len(rows) |-> rows[f[i]]] :
        f \in {g \in [1..Len(rows) -> 1..Len(rows)] : \A i, j \in 1..Len(rows) : g[i] = g[j] => i = j}}

\* the dates of the rows
DatesOf(rows) == {rows[i].Date : i \in 1..Len(rows)}

\* pow(close/open, 1/years) - 1 for the Open of row a and the Close of row b
CagrFormula(a, b, years) ==
    IF years = 1 THEN Sub(Div(R(b.Close, 1), R(a.Open, 1)), One)
    ELSE LET p == Pow(Div(R(b.Close, 1), R(a.Open, 1)), years)
         IN  IF "root" \in DOMAIN p THEN p ELSE Sub(p, One)

\* C15 as claimed: get_cagr of a Stock with rows is the formula's value for the Open
\* of an earliest-dated row, the Close of a latest-dated row and the number of
\* distinct calendar years of its dates, and a Stock built from the same rows
\* supplied in any other order gives the same result.
C15_CagrFormula ==
    (stock # Null /\ sret.op = "get_cagr" /\ stock.df # <<>>) =>
        LET years == Cardinality({Year(d) : d \in DatesOf(stock.df)})
        IN  /\ sret.kind = "ok"
            /\ \E i, j \in 1..Len(stock.df) :
                  /\ \A d \in DatesOf(stock.df) : stock.df[i].Date <= d /\ d <= stock.df[j].Date
                  /\ sret.val = CagrFormula(stock.df[i], stock.df[j], years)
            /\ \A rows \in Reorderings(stock.df) :
                  StockCagr(StockInit(stock.name, [isDF |-> TRUE, cols |-> RequiredCols,
                                                   rows |-> rows]).val) = sret

\* --------------------------------------------------------- claims: Benchmark
\* the positions of the constituents named name
Named(name) == {j \in 1..Len(bench) : bench[j].name = name}

\* C16: get_stock(name) returns the first constituent, in constituent order, whose
\* name is name, and None when there is none; it does not raise and leaves the
\* constituent list as it was.
C16_GetStock ==
    [][bret'.op = "get_stock" =>
        /\ bench' = bench
        /\ bret'.kind = "ok"
        /\ Named(bret'.name) = {} => bret'.val = Null
        /\ Named(bret'.name) # {} =>
              \E j \in Named(bret'.name) :
                  /\ \A k \in Named(bret'.name) : j <= k
                  /\ bret'.val = bench[j]]_vars

\* a lookup by a name two constituents have returned the first, which differs from
\* the second
C16_Witness ==
    /\ bret.op = "get_stock"
    /\ Len(bench) = 2
    /\ Named(bret.name) = {1, 2}
    /\ bench[1] # bench[2]
    /\ bret.val = bench[1]

\* --------------------------------------------------- claims: Stock, continued
\* C17: get_daily_return of a Stock with two rows or more has one entry per price
\* row, in the order of the stored rows, which is by date; the entry of a row is
\* keyed by the row's date and is (close - open) / open * 100 of that row.
C17_DailyReturnPerRow ==
    (stock # Null /\ sret.op = "get_daily_return" /\ Len(stock.df) >= 2) =>
        /\ sret.kind = "ok"
        /\ Len(sret.val) = Len(stock.df)
        /\ \A i \in 1..Len(stock.df) :
              /\ sret.val[i].date = stock.df[i].Date
              /\ sret.val[i].val =
                    Mul(Div(Sub(R(stock.df[i].Close, 1), R(stock.df[i].Open, 1)),
                            R(stock.df[i].Open, 1)), R(100, 1))
        /\ \A i \in 1..Len(sret.val) - 1 : sret.val[i].date <= sret.val[i + 1].date

\* two rows of different dates and different finite returns
C17_Witness ==
    /\ stock # Null
    /\ sret.op = "get_daily_return"
    /\ Len(stock.df) = 2
    /\ Len(sret.val) = 2
    /\ sret.val[1].date < sret.val[2].date
    /\ IsFinite(sret.val[1].val) /\ IsFinite(sret.val[2].val)
    /\ sret.val[1].val # sret.val[2].val
    /\ sret.val[1].val # Zero

\* ------------------------------------------- claims: Performance, continued
\* the metrics whose computation asks the evaluated entity for its CAGR
CagrMetrics == {"alpha", "return", "treynor_ratio", "sharpe_ratio"}

\* the metrics the call op has to compute on a report whose dict is c
ToCompute(op, c) ==
    IF op = "get_all_metric" THEN MetricNames \ KeySet(c)
    ELSE {k \in MetricNames \ KeySet(c) : Getter(k) = op}

\* the metrics of todo that get_all_metric computes before the first one of todo
\* that asks for the entity's CAGR
Before(todo) ==
    LET first == CHOOSE i \in 1..Len(Metrics) :
                     /\ Metrics[i] \in todo \cap CagrMetrics
                     /\ \A j \in 1..(i - 1) : Metrics[j] \notin todo \cap CagrMetrics
    IN  {Metrics[j] : j \in {n \in 1..(first - 1) : Metrics[n] \in todo}}

\* C18: a getter that has to compute a metric for which a call into the evaluated
\* entity raises (get_cagr on an entity without rows) fails with that exception:
\* the metric gets no entry, every entry cached before keeps its value, and what
\* get_all_metric computed before the failure, and nothing after it, is cached.
\* A call fails for no other reason, and a getter whose metric is not cached, as
\* after a failure, calls into the entities again.
C18_FailurePropagates ==
    [][Served =>
        LET todo == ToCompute(pret'.op, performace)
            fails == todo \cap CagrMetrics # {} /\ StockCagr(Ent).kind = "raise"
        IN  /\ (pret'.kind = "raise") = fails
            /\ todo # {} => pret'.calls # {}
            /\ \A k \in KeySet(performace) :
                  k \in KeySet(performace') /\ Get(performace', k) = Get(performace, k)
            /\ KeySet(performace') = KeySet(performace) \cup pret'.computed
            /\ fails =>
                  /\ pret'.err = StockCagr(Ent).err
                  /\ pret'.val = Null
                  /\ KeySet(performace') \cap (todo \cap CagrMetrics) = {}
                  /\ pret'.computed =
                        IF pret'.op = "get_all_metric" THEN Before(todo) ELSE {}]_vars

\* get_all_metric failed at alpha, on a report with a cached sharpe_ratio, after it
\* had computed beta: both are cached, alpha is not
C18_Witness ==
    /\ pret.op = "get_all_metric"
    /\ pret.kind = "raise"
    /\ pret.err = "IndexError"
    /\ pret.computed = {"beta"}
    /\ Keys(performace) = <<"sharpe_ratio", "beta">>

\* C19 as claimed: the table get_all_metric returns has the columns beta, alpha,
\* return, tracking_error, treynor_ratio, sharpe_ratio in this order, whichever
\* getters were called on the report before.
C19_ColumnOrder ==
    (pret.op = "get_all_metric" /\ pret.kind = "ok") => pret.val.columns = Metrics

\* ------------------------------------------------------ claims: StockFactory
\* the price rows the provider supplies for the symbol, in date order
ProvidedRows(sym) ==
    LET frame == ProviderData(sym)
    IN  SortByDate([i \in 1..Len(frame.index) |->
                      [Date |-> frame.index[i], Open |-> frame.rows[i].Open,
                       Close |-> frame.rows[i].Close]])

\* C20 as claimed: the Stock that create_stock returns for a symbol holds the price
\* table the provider supplies for that symbol, whatever was requested before; a
\* file written for another symbol is never read for it.
C20_OwnTable ==
    fret.op = "create_stock" =>
        /\ fret.kind = "ok"
        /\ fret.val.name = fret.args.stocks[1]
        /\ fret.val.df = ProvidedRows(fret.args.stocks[1])
====
